---- MODULE Spec2Model ----
(***************************************************************************)
(* The gsplat reference harness of brush-render/test_cases:                *)
(*   bench.py               the density/resolution benchmark sweep,        *)
(*   generate_reference.py  the three golden-fixture generators.           *)
(*                                                                         *)
(* Numbers.  Reals are fixed-point integers with FP units to 1.0; integer  *)
(* division stands for the rounding of the float operation.  A tensor is   *)
(* [n, rows, requires_grad, grad]: n is its true leading count and rows    *)
(* holds its first Min(n, MaxRows) rows (every harness operation is        *)
(* row-wise, so a prefix of rows is computed exactly as the code does).    *)
(* The rasterization backend, spherical_harmonics and autograd are         *)
(* external: they are deterministic stand-ins of their arguments.          *)
(***************************************************************************)
EXTENDS Integers, Sequences, FiniteSets, TLC

VARIABLES
    script,       \* which of the two scripts this run executes
    pc,           \* position of the running script
    poolFile,     \* ./bench_data.safetensors, the on-disk splat pool
    cfg,          \* arguments of the running bench_general call
    tens,         \* the five splat tensors (means, log_scales, coeffs, quats, opacities)
    times,        \* bench_general: durations collected so far
    iters,        \* measure_iter: passes issued in the running batch
    start_time,   \* measure_iter: clock reading at the start of the batch
    now,          \* the clock
    pending,      \* device kernels issued and not yet completed
    ret,          \* bench_general: the median, in half ticks
    lastCall,     \* arguments of the latest rasterization call
    sweepRow,     \* sweep: medians of the running list comprehension
    bench_times,  \* sweep: label -> list of medians
    sweepPos,     \* sweep: index of the running (grad, regime) line, 1..6
    rng,          \* torch default generator: [seed, offset]
    case,         \* fixture: the generator cell being run
    cellRuns,     \* fixture: cells run so far
    nonleaf,      \* fixture: xys, conics, out_img, depths of the running test
    tensors,      \* fixture: the record collected by execute_test
    files,        \* fixture: name -> saved .safetensors content
    hist          \* history: events, counters and snapshots the claims read

vars == <<script, pc, poolFile, cfg, tens, times, iters, start_time, now, pending,
          ret, lastCall, sweepRow, bench_times, sweepPos, rng, case, cellRuns, nonleaf,
          tensors, files, hist>>

-----------------------------------------------------------------------------
(* Bounds of the model *)

FP == 16               \* fixed-point units to 1.0
RandMod == 4           \* torch.rand yields k / RandMod, k in 0..RandMod-1
MaxRows == 2           \* rows of a tensor that are materialised
MaxPoolSeed == 1       \* pool contents tried: 0..MaxPoolSeed
MaxPool == 100         \* pool sizes tried by the loader specification
BenchPoolSize == 10    \* pool size of the benchmark runs
CrabSize == 8          \* width and height of ./crab.png
MaxCellRuns == 3       \* generator cells run in one notebook session
MaxPriorOffset == 1    \* generator offsets left behind before the session
MaxPriorSeed == 1      \* generator seeds left behind before the session
MaxPeriod == 3         \* period of the load pattern of a timing run
MaxDuration == 3       \* batch durations of a timing run are 1..MaxDuration ticks

(* Program constants *)

DEFAULT_TILE_SIZE == 16
SH_DEGREE == 3
SH_COUNT == (SH_DEGREE + 1) * (SH_DEGREE + 1)
DENSE_MULT == 25               \* 0.25, in hundredths
TARGET_SAMPLE_COUNT == 40
INTERNAL_ITERS == 4
BENCH_DENSITIES == 1 .. 10     \* index j stands for the literal j/10

-----------------------------------------------------------------------------
(* Arithmetic helpers *)

Min(a, b) == IF a <= b THEN a ELSE b
Max(a, b) == IF a >= b THEN a ELSE b
Abs(a) == IF a < 0 THEN -a ELSE a
Sgn(a) == IF a < 0 THEN -1 ELSE IF a > 0 THEN 1 ELSE 0
Half == FP \div 2

RECURSIVE Pow2(_)
Pow2(e) == IF e <= 0 THEN 1 ELSE 2 * Pow2(e - 1)

\* floor of the square root
ISqrt(x) == CHOOSE r \in 0 .. Max(x, 0) : r * r <= Max(x, 0) /\ (r + 1) * (r + 1) > Max(x, 0)

\* sqrt of a fixed-point value, as a fixed-point value
SqrtFP(x) == ISqrt(x * FP)

RECURSIVE SumSeq(_)
SumSeq(s) == IF s = <<>> THEN 0 ELSE Head(s) + SumSeq(Tail(s))

SumSq(v) == SumSeq([i \in 1 .. Len(v) |-> v[i] * v[i]])

-----------------------------------------------------------------------------
(* Tensors *)

NoGrad == [set |-> FALSE, rows |-> <<>>]

\* a fresh tensor of n rows, of which rows are materialised
Tensor(n, rows) == [n |-> n, rows |-> rows, requires_grad |-> FALSE, grad |-> NoGrad]

NoTensor == [n |-> 0, rows |-> <<>>, requires_grad |-> FALSE, grad |-> NoGrad]

Names == {"means", "log_scales", "coeffs", "quats", "opacities"}

NoTensors == [k \in Names |-> NoTensor]

\* a raw quaternion row: components v in fixed point, i.e. the vector v / sqrt(d2)
RawQuat(v) == [v |-> v, d2 |-> FP * FP]

\* a quaternion row has L2 norm 1
IsUnit(q) == SumSq(q.v) = q.d2

\* the values ln(x): torch.log of the fixed-point value x
LogT(x) == [ln |-> x]

-----------------------------------------------------------------------------
(* The on-disk pool, bench_data.safetensors (its content is not in the     *)
(* repository: PoolFile(n, s) is a pool of n rows, s selects the content)  *)

PoolFile(n, s) ==
    [n |-> n,
     means |-> [i \in 1 .. Min(n, MaxRows) |-> <<(i + s) * FP, -(i * FP), 2 * i * FP + s>>],
     scales |-> [i \in 1 .. Min(n, MaxRows) |-> <<LogT(i + s + 1), LogT(FP), LogT(2 * FP)>>],
     coeffs |-> [i \in 1 .. Min(n, MaxRows) |->
                   [k \in 1 .. SH_COUNT |->
                      [c \in 1 .. 3 |-> (((i + s + c + k) % 3) - 1) * 3 * FP]]],
     quats |-> [i \in 1 .. Min(n, MaxRows) |->
                   RawQuat(<<(i + s) * FP, (i % 2) * Half, 0, s * FP>>)],
     opacities |-> [i \in 1 .. Min(n, MaxRows) |-> (i - s) * Half]]

-----------------------------------------------------------------------------
(* bench.py: load_bench_tensors *)

\* 10 * (j/10 * 2^s - M) for the double M * 2^-s nearest to the literal j/10
\* of BENCH_DENSITIES: positive when the double lies below the decimal
DensityRho(j) == <<-4, -4, 2, -4, 0, 2, 4, -4, -2, 0>>[j]

\* t with j/10 in [2^-t, 2^(1-t))
DensityExp(j) == <<4, 3, 2, 2, 1, 1, 1, 1, 1, 0>>[j]

\* e with 2^e < k <= 2^(e+1), for k >= 1 (e = -1 for k = 1)
RECURSIVE Log2Below(_)
Log2Below(k) == IF k <= 1 THEN -1 ELSE 1 + Log2Below((k + 1) \div 2)

\* int(means.shape[0] * point_frac) in IEEE double arithmetic: the product
\* shape * double(j/10) is rounded to the nearest double and truncated.  When
\* j * shape / 10 is an integer k and double(j/10) < j/10 the exact product is
\* k - rho * shape / (10 * 2^s); it rounds to the double below k, and so
\* truncates to k - 1, when that distance exceeds half the spacing below k.
num_points(shape, j) ==
    LET k == (j * shape) \div 10
        e == Log2Below(k)
    IN  IF (j * shape) % 10 = 0 /\ k >= 1 /\ DensityRho(j) > 0
              /\ 2 * DensityRho(j) * shape > 10 * Pow2(e + DensityExp(j))
        THEN k - 1 ELSE k

\* means[0:num_points] * mean_mult (mean_mult in hundredths)
ScaleMeans(r, mean_mult) == [c \in 1 .. 3 |-> (r[c] * mean_mult) \div 100]

\* fault model: the tensors track gradients in every mode
AlwaysTrack(grad) == TRUE

\* x.requires_grad = grad, for each of the five tensors
requires_grad(grad) == grad

load_bench_tensors(f, point_frac, mean_mult, grad) ==
    LET n == num_points(f.n, point_frac)
        Slice(rows) == [i \in 1 .. Min(n, MaxRows) |-> rows[i]]
        T(rows) == [n |-> n, rows |-> Slice(rows), requires_grad |-> requires_grad(grad),
                    grad |-> NoGrad]
    IN  [means |-> T([i \in 1 .. Min(f.n, MaxRows) |-> ScaleMeans(f.means[i], mean_mult)]),
         log_scales |-> T(f.scales),
         coeffs |-> T(f.coeffs),
         quats |-> T(f.quats),
         opacities |-> T(f.opacities)]

-----------------------------------------------------------------------------
(* Camera (both scripts) *)

\* the camera position (0.123, 0.456, -8.0)
CamPos == <<(123 * FP) \div 1000, (456 * FP) \div 1000, -(8 * FP)>>

\* fov_to_focal with fov_x = pi / 2: 0.5 * img_size / tan(pi / 4)
fov_to_focal(img_size) == img_size \div 2

basic_camera(w, h) ==
    [viewmat |-> <<-CamPos[1], -CamPos[2], -CamPos[3]>>,   \* the translation column
     focal |-> fov_to_focal(w), w |-> w, h |-> h, background |-> <<0, 0, 0>>]

\* torch.inverse(viewmats)[:, None, :3, 3]: the eye of a pure translation
CamEye(cam) == <<-cam.viewmat[1], -cam.viewmat[2], -cam.viewmat[3]>>

\* dirs = means - camtoworlds[..., :3, 3], detached
Dirs(meansRow, cam) == [c \in 1 .. 3 |-> meansRow[c] - CamEye(cam)[c]]

-----------------------------------------------------------------------------
(* gsplat.spherical_harmonics, external: a deterministic stand-in.  Band 0  *)
(* is the constant 0.282; higher bands depend on the direction.            *)

SHBasis(k, dir) ==
    IF k = 1 THEN (282 * FP) \div 1000
    ELSE Sgn(dir[((k - 2) % 3) + 1]) * Half

RECURSIVE SHSum(_, _, _, _)
SHSum(k, dir, coeffRow, c) ==
    IF k = 0 THEN 0
    ELSE SHBasis(k, dir) * coeffRow[k][c] + SHSum(k - 1, dir, coeffRow, c)

spherical_harmonics(degree, dir, coeffRow) ==
    [c \in 1 .. 3 |-> SHSum((degree + 1) * (degree + 1), dir, coeffRow, c) \div FP]

\* colors = colors + 0.5
AddHalf(col) == [c \in 1 .. 3 |-> col[c] + Half]

\* colors.clamp(min=0.0)
ClampMin0(col) == [c \in 1 .. 3 |-> Max(col[c], 0)]

\* torch.nn.functional.normalize(quats, dim=1): x / max(|x|, eps)
normalize(q) == IF SumSq(q.v) = 0 THEN q ELSE [v |-> q.v, d2 |-> SumSq(q.v)]

\* log_scales.exp()
Exp(row) == [c \in 1 .. Len(row) |-> row[c].ln]

\* torch.sigmoid: strictly inside (0, 1)
Sigmoid(x) == Max(1, Min(FP - 1, Half + x \div 4))

-----------------------------------------------------------------------------
(* gsplat.rasterization and autograd, external: deterministic stand-ins    *)

NoCall == [path |-> "none", n |-> 0, means |-> <<>>, quats |-> <<>>, scales |-> <<>>,
           opacities |-> <<>>, colors |-> <<>>, width |-> 0, height |-> 0,
           tile_size |-> 0]

\* the keyword arguments of one rasterization call
CallArgs(path, t, quatRows, colorRows, w, h) ==
    [path |-> path, n |-> t.means.n,
     means |-> t.means.rows,
     quats |-> quatRows,
     scales |-> [i \in 1 .. Len(t.log_scales.rows) |-> Exp(t.log_scales.rows[i])],
     opacities |-> [i \in 1 .. Len(t.opacities.rows) |-> Sigmoid(t.opacities.rows[i])],
     colors |-> colorRows,
     width |-> w, height |-> h, tile_size |-> DEFAULT_TILE_SIZE]

\* info["depths"], info["means2d"], info["conics"] and the rendered image
RasterDepth(call, cam, i) == call.means[i][3] + cam.viewmat[3]

RasterOutputs(call, cam) ==
    LET R == 1 .. Len(call.means)
        xy(i) == <<(cam.focal * call.means[i][1]) \div Max(Abs(RasterDepth(call, cam, i)), 1),
                   (cam.focal * call.means[i][2]) \div Max(Abs(RasterDepth(call, cam, i)), 1)>>
    IN  [depths |-> [i \in R |-> RasterDepth(call, cam, i)],
         xys |-> [i \in R |-> xy(i)],
         conics |-> [i \in R |-> <<call.scales[i][1], call.scales[i][2],
                                   SumSq(call.quats[i].v) % 7>>],
         out_img |-> [i \in R |-> <<(call.colors[i][1] * call.opacities[i]) \div FP,
                                    (call.colors[i][2] * call.opacities[i]) \div FP,
                                    (call.colors[i][3] * call.opacities[i]) \div FP,
                                    call.opacities[i]>>]]

\* the gradient one backward pass adds to row i of every tracked tensor
BackendGrad(call, i) == 1 + ((call.colors[i][1] + call.opacities[i]) % 3)

BackendGrads(call) == [i \in 1 .. Len(call.means) |-> BackendGrad(call, i)]

\* autograd writes .grad of a tensor that tracks gradients, accumulating
Accumulate(t, g) ==
    IF ~t.requires_grad THEN t
    ELSE [t EXCEPT !.grad = [set |-> TRUE,
                             rows |-> IF t.grad.set
                                      THEN [i \in 1 .. Len(g) |-> t.grad.rows[i] + g[i]]
                                      ELSE g]]

backward(t, call) == [k \in Names |-> Accumulate(t[k], BackendGrads(call))]

-----------------------------------------------------------------------------
(* numpy.median *)

RECURSIVE Insert(_, _)
Insert(s, x) ==
    IF s = <<>> THEN <<x>>
    ELSE IF x <= Head(s) THEN <<x>> \o s
    ELSE <<Head(s)>> \o Insert(Tail(s), x)

RECURSIVE Sort(_)
Sort(s) == IF s = <<>> THEN <<>> ELSE Insert(Sort(Tail(s)), Head(s))

\* fault model: the upper middle sample alone, also for an even count
MedianUpperMiddle(ts) == 2 * Sort(ts)[Len(ts) \div 2 + 1]

\* np.median(times), in half ticks: the middle of the sorted samples, or the
\* mean of the two middle ones
median(ts) ==
    LET s == Sort(ts)
        n == Len(s)
    IN  IF n % 2 = 1 THEN 2 * s[(n + 1) \div 2] ELSE s[n \div 2] + s[n \div 2 + 1]

-----------------------------------------------------------------------------
(* bench.py: bench_general *)

NoCfg == [point_frac |-> 1, mean_mult |-> 100, w |-> 0, h |-> 0, calc_grads |-> FALSE]

NoHist == [events |-> <<>>, fwd |-> 0, bwd |-> 0, firstSet |-> FALSE, first |-> NoTensors,
           rowLog |-> <<>>, benchLog |-> [l \in {} |-> <<>>],
           exec |-> <<>>, splats |-> NoTensors, firstFiles |-> [l \in {} |-> <<>>],
           pattern |-> <<>>, split |-> 0, level |-> 0]

\* fault model: the benchmark colours are not clamped
BenchColorsUnclamped(meansRow, coeffRow, cam) ==
    AddHalf(spherical_harmonics(0, Dirs(meansRow, cam), coeffRow))

\* colors = spherical_harmonics(0, dirs, coeffs); + 0.5; clamp(min=0.0)
bench_colors(meansRow, coeffRow, cam) ==
    ClampMin0(AddHalf(spherical_harmonics(0, Dirs(meansRow, cam), coeffRow)))

\* quats=quats
bench_quats(q) == q

BenchCall(t, w, h) ==
    LET cam == basic_camera(w, h)
    IN  CallArgs("bench", t,
                 [i \in 1 .. Len(t.quats.rows) |-> bench_quats(t.quats.rows[i])],
                 [i \in 1 .. Len(t.means.rows) |->
                    bench_colors(t.means.rows[i], t.coeffs.rows[i], cam)],
                 w, h)

\* bench_general up to the definition of its closures: camera and tensors
BenchEnter ==
    /\ script = "bench" /\ pc = "load"
    /\ tens' = load_bench_tensors(poolFile, cfg.point_frac, cfg.mean_mult, cfg.calc_grads)
    /\ times' = <<>>
    /\ hist' = [hist EXCEPT !.events = <<>>, !.fwd = 0, !.bwd = 0,
                            !.firstSet = FALSE, !.first = NoTensors]
    /\ pc' = "start"
    /\ UNCHANGED <<script, poolFile, cfg, iters, start_time, now, pending, ret, lastCall,
                   sweepRow, bench_times, sweepPos, rng, case, cellRuns, nonleaf, tensors,
                   files>>

\* measure_iter: start_time = time.perf_counter()
StartClock ==
    /\ script = "bench" /\ pc = "start"
    /\ Len(times) < TARGET_SAMPLE_COUNT
    /\ start_time' = now
    /\ iters' = 0
    /\ hist' = [hist EXCEPT !.events = <<"start">>,
                            !.firstSet = TRUE,
                            !.first = IF hist.firstSet THEN hist.first ELSE tens]
    /\ pc' = "iter"
    /\ UNCHANGED <<script, poolFile, cfg, tens, times, now, pending, ret, lastCall,
                   sweepRow, bench_times, sweepPos, rng, case, cellRuns, nonleaf, tensors,
                   files>>

\* internal_iter: the forward pass; without calc_grads this is the whole pass
InternalIterForward ==
    /\ script = "bench" /\ pc = "iter"
    /\ iters < INTERNAL_ITERS
    /\ lastCall' = BenchCall(tens, cfg.w, cfg.h)
    /\ pending' = pending + 1
    /\ hist' = [hist EXCEPT !.events = Append(@, "pass"), !.fwd = @ + 1]
    /\ IF cfg.calc_grads
       THEN pc' = "loss" /\ iters' = iters
       ELSE pc' = "iter" /\ iters' = iters + 1
    /\ UNCHANGED <<script, poolFile, cfg, tens, times, start_time, now, ret,
                   sweepRow, bench_times, sweepPos, rng, case, cellRuns, nonleaf, tensors,
                   files>>

\* internal_iter: loss = img.mean(); loss.backward()
InternalIterBackward ==
    /\ script = "bench" /\ pc = "loss"
    /\ tens' = backward(tens, lastCall)
    /\ pending' = pending + 1
    /\ iters' = iters + 1
    /\ hist' = [hist EXCEPT !.bwd = @ + 1]
    /\ pc' = "iter"
    /\ UNCHANGED <<script, poolFile, cfg, times, start_time, now, ret, lastCall,
                   sweepRow, bench_times, sweepPos, rng, case, cellRuns, nonleaf, tensors,
                   files>>

\* fault model: the synchronization returns without waiting for the device
SyncReturnsAtOnce(p) == TRUE

\* torch.cuda.synchronize returns once no device work is outstanding
SyncReturns(p) == p = 0

\* measure_iter: torch.cuda.synchronize(g_device)
Synchronize ==
    /\ script = "bench" /\ pc = "iter"
    /\ iters = INTERNAL_ITERS
    /\ SyncReturns(pending)
    /\ hist' = [hist EXCEPT !.events = Append(@, "sync")]
    /\ pc' = "stop"
    /\ UNCHANGED <<script, poolFile, cfg, tens, times, iters, start_time, now, pending, ret,
                   lastCall, sweepRow, bench_times, sweepPos, rng, case, cellRuns, nonleaf,
                   tensors, files>>

\* measure_iter: bench_time = time.perf_counter() - start_time
StopClock ==
    /\ script = "bench" /\ pc = "stop"
    /\ times' = Append(times, now - start_time)
    /\ hist' = [hist EXCEPT !.events = Append(@, "stop")]
    /\ pc' = "start"
    /\ UNCHANGED <<script, poolFile, cfg, tens, iters, start_time, now, pending, ret,
                   lastCall, sweepRow, bench_times, sweepPos, rng, case, cellRuns, nonleaf,
                   tensors, files>>

\* ret = np.median(times); return ret
ReturnMedian ==
    /\ script \in {"bench", "timing"} /\ pc = "start"
    /\ Len(times) = TARGET_SAMPLE_COUNT
    /\ ret' = median(times)
    /\ pc' = "returned"
    /\ UNCHANGED <<script, poolFile, cfg, tens, times, iters, start_time, now, pending,
                   lastCall, sweepRow, bench_times, sweepPos, rng, case, cellRuns, nonleaf,
                   tensors, files, hist>>

\* the device completes one outstanding kernel; the clock advances with it
DeviceStep ==
    /\ script = "bench"
    /\ pending > 0
    /\ pending' = pending - 1
    /\ now' = now + 1
    /\ UNCHANGED <<script, pc, poolFile, cfg, tens, times, iters, start_time, ret, lastCall,
                   sweepRow, bench_times, sweepPos, rng, case, cellRuns, nonleaf, tensors,
                   files, hist>>

BenchGeneral ==
    \/ BenchEnter
    \/ StartClock
    \/ InternalIterForward
    \/ InternalIterBackward
    \/ Synchronize
    \/ StopClock
    \/ ReturnMedian
    \/ DeviceStep

-----------------------------------------------------------------------------
(* bench.py: the sweep at module level *)

SweepLabels == <<"fwd_base", "fwd_dense", "fwd_hd", "bwd_base", "bwd_dense", "bwd_hd">>

\* fault model: the dense multiplier lands on the hd line instead of the dense line
SweepCfgDenseOnHd(p, j) ==
    LET regime == ((p - 1) % 3) + 1
    IN  [point_frac |-> j,
         mean_mult |-> IF regime = 3 THEN DENSE_MULT ELSE 100,
         w |-> IF regime = 3 THEN 1024 ELSE 512,
         h |-> IF regime = 3 THEN 1024 ELSE 512,
         calc_grads |-> p > 3]

\* the arguments of the p-th bench_times line, at density index j
SweepCfg(p, j) ==
    LET regime == ((p - 1) % 3) + 1
    IN  [point_frac |-> j,
         mean_mult |-> IF regime = 2 THEN DENSE_MULT ELSE 100,
         w |-> IF regime = 3 THEN 1024 ELSE 512,
         h |-> IF regime = 3 THEN 1024 ELSE 512,
         calc_grads |-> p > 3]

SweepCfgs == {SweepCfg(p, j) : p \in 1 .. Len(SweepLabels), j \in BENCH_DENSITIES}

\* [bench_general(dens, ...) for dens in BENCH_DENSITIES]: the next call
SweepCall ==
    /\ script = "bench" /\ pc = "sweep"
    /\ sweepPos <= Len(SweepLabels)
    /\ Len(sweepRow) < Cardinality(BENCH_DENSITIES)
    /\ cfg' = SweepCfg(sweepPos, Len(sweepRow) + 1)
    /\ pc' = "load"
    /\ UNCHANGED <<script, poolFile, tens, times, iters, start_time, now, pending, ret,
                   lastCall, sweepRow, bench_times, sweepPos, rng, case, cellRuns, nonleaf,
                   tensors, files, hist>>

\* the comprehension takes the value bench_general returned
SweepCollect ==
    /\ script = "bench" /\ pc = "returned"
    /\ sweepPos <= Len(SweepLabels)
    /\ sweepRow' = Append(sweepRow, ret)
    /\ hist' = [hist EXCEPT !.rowLog = Append(@, [cfg |-> cfg, ret |-> ret])]
    /\ pc' = "sweep"
    /\ UNCHANGED <<script, poolFile, cfg, tens, times, iters, start_time, now, pending, ret,
                   lastCall, bench_times, sweepPos, rng, case, cellRuns, nonleaf, tensors,
                   files>>

\* the dict d with key k set to v
Put(d, k, v) == [x \in (DOMAIN d) \cup {k} |-> IF x = k THEN v ELSE d[x]]

\* bench_times[f"{name}_..."] = [...]
SweepAssign ==
    /\ script = "bench" /\ pc = "sweep"
    /\ sweepPos <= Len(SweepLabels)
    /\ Len(sweepRow) = Cardinality(BENCH_DENSITIES)
    /\ bench_times' = Put(bench_times, SweepLabels[sweepPos], sweepRow)
    /\ hist' = [hist EXCEPT !.benchLog = Put(@, SweepLabels[sweepPos], hist.rowLog),
                            !.rowLog = <<>>]
    /\ sweepRow' = <<>>
    /\ sweepPos' = sweepPos + 1
    /\ UNCHANGED <<script, pc, poolFile, cfg, tens, times, iters, start_time, now, pending,
                   ret, lastCall, rng, case, cellRuns, nonleaf, tensors, files>>

Sweep == SweepCall \/ SweepCollect \/ SweepAssign

-----------------------------------------------------------------------------
(* torch's default generator: a deterministic function of seed and offset  *)

\* torch.manual_seed(seed)
manual_seed(seed) == [seed |-> seed, offset |-> 0]

\* the k of the draw k / RandMod at stream position pos
Draw(seed, pos) ==
    ((seed * 31 + pos * 17 + (pos \div 7) * 5 + ((seed * pos) % 11)) % 101) % RandMod

\* element (i, j) of torch.rand(n, width) drawn from generator state g
RandAt(g, i, width, j) == Draw(g.seed, g.offset + (i - 1) * width + (j - 1))

\* the generator after count draws
Advance(g, count) == [seed |-> g.seed, offset |-> g.offset + count]

\* the draw k as a fixed-point value in [0, 1)
U(k) == (k * FP) \div RandMod

\* sin(2 pi z / (4 RandMod)), by the parabola through the zeros and extrema
SinQ(z) ==
    LET m == RandMod
    IN  IF z <= 2 * m THEN (FP * z * (2 * m - z)) \div (m * m)
        ELSE -((FP * (z - 2 * m) * (4 * m - z)) \div (m * m))

\* torch.sin(2.0 * math.pi * v), torch.cos(2.0 * math.pi * v) for the draw k
SinTurn(k) == SinQ(4 * k)
CosTurn(k) == SinQ((4 * k + RandMod) % (4 * RandMod))

\* one row of the uniform-rotation recipe from the draws u, v, w
RecipeQuat(u, v, w) ==
    RawQuat(<<(SqrtFP(FP - U(u)) * SinTurn(v)) \div FP,
              (SqrtFP(FP - U(u)) * CosTurn(v)) \div FP,
              (SqrtFP(U(u)) * SinTurn(w)) \div FP,
              (SqrtFP(U(u)) * CosTurn(w)) \div FP>>)

-----------------------------------------------------------------------------
(* generate_reference.py: tiny_case, gen_basic_case, gen_mix_case *)

Cases == {"tiny_case", "basic_case", "mix_case"}

CaseSeed(c) == IF c = "tiny_case" THEN 14 ELSE IF c = "basic_case" THEN 3 ELSE 6

CaseNumPoints(c) == IF c = "tiny_case" THEN 4 ELSE IF c = "basic_case" THEN 16 ELSE 76873

\* means: 10.5 * (r - 0.5), 10.0 * (r - 0.5), 2000.0 * (r - 0.5)
CaseMean(c, r) ==
    IF c = "tiny_case" THEN (21 * (r - Half)) \div 2
    ELSE IF c = "basic_case" THEN 10 * (r - Half)
    ELSE 2000 * (r - Half)

\* log_scales: (r * 2.5).log(), r.log() * 0.5, (r * 15.0 + 0.05).log()
CaseLogScale(c, r) ==
    IF c = "tiny_case" THEN LogT((r * 5) \div 2)
    ELSE IF c = "basic_case" THEN LogT(SqrtFP(r))
    ELSE LogT(r * 15 + (5 * FP) \div 100)

\* coeffs: (r - 0.5) * 0.5
CaseCoeff(r) == (r - Half) \div 2

\* opacities: r * 0.5 + 0.5 (tiny, basic), r (mix)
CaseOpacity(c, r) == IF c = "mix_case" THEN r ELSE r \div 2 + Half

\* fault model: the generator is not reseeded
KeepGenerator(c, g) == g

\* torch.manual_seed(<seed of the case>) at the top of the generator
Reseed(c, g) == manual_seed(CaseSeed(c))

\* the generator body up to the call of execute_test: the splat set and the
\* generator state it leaves behind
GenSplats(c, g) ==
    LET n  == CaseNumPoints(c)
        g0 == Reseed(c, g)
        gS == Advance(g0, n * 3)
        gC == Advance(gS, n * 3)
        gU == Advance(gC, n * SH_COUNT * 3)
        gV == Advance(gU, n)
        gW == Advance(gV, n)
        gO == Advance(gW, n)
        R  == 1 .. Min(n, MaxRows)
    IN  [splats |->
           [means |-> Tensor(n, [i \in R |->
                        [j \in 1 .. 3 |-> CaseMean(c, U(RandAt(g0, i, 3, j)))]]),
            log_scales |-> Tensor(n, [i \in R |->
                        [j \in 1 .. 3 |-> CaseLogScale(c, U(RandAt(gS, i, 3, j)))]]),
            coeffs |-> Tensor(n, [i \in R |->
                        [k \in 1 .. SH_COUNT |->
                           [j \in 1 .. 3 |->
                              CaseCoeff(U(RandAt(gC, i, SH_COUNT * 3, (k - 1) * 3 + j)))]]]),
            quats |-> Tensor(n, [i \in R |->
                        RecipeQuat(RandAt(gU, i, 1, 1), RandAt(gV, i, 1, 1),
                                   RandAt(gW, i, 1, 1))]),
            opacities |-> Tensor(n, [i \in R |-> CaseOpacity(c, U(RandAt(gO, i, 1, 1)))])],
         rng |-> Advance(gO, n)]

-----------------------------------------------------------------------------
(* generate_reference.py: execute_test *)

\* a non-leaf tensor of the autograd graph
NonLeaf(rows) == [rows |-> rows, retain |-> FALSE, grad |-> NoGrad]

NoNonLeaf == [xys |-> NonLeaf(<<>>), conics |-> NonLeaf(<<>>), out_img |-> NonLeaf(<<>>),
              depths |-> <<>>]

\* colors = spherical_harmonics(3, dirs, coeffs); + 0.5; the clamp is commented out
fixture_colors(meansRow, coeffRow, cam) ==
    AddHalf(spherical_harmonics(3, Dirs(meansRow, cam), coeffRow))

\* quat_norms = torch.nn.functional.normalize(quats, dim=1)
quat_norms(q) == normalize(q)

FixtureCall(t, w, h) ==
    LET cam == basic_camera(w, h)
    IN  CallArgs("fixture", t,
                 [i \in 1 .. Len(t.quats.rows) |-> quat_norms(t.quats.rows[i])],
                 [i \in 1 .. Len(t.means.rows) |->
                    fixture_colors(t.means.rows[i], t.coeffs.rows[i], cam)],
                 w, h)

\* x.requires_grad = True
RequireGrad(t) == [t EXCEPT !.requires_grad = TRUE]

\* fault model: retention is not requested
RetainNothing(t) == t

\* x.retain_grad()
retain_grad(t) == [t EXCEPT !.retain = TRUE]

\* autograd keeps .grad of a non-leaf tensor only when retention was requested
BackwardNonLeaf(t, g) == IF t.retain THEN [t EXCEPT !.grad = [set |-> TRUE, rows |-> g]] ELSE t

\* a generator cell: the generator body, which ends by calling execute_test
GenCell(c) ==
    /\ script = "fixture" /\ pc = "idle"
    /\ cellRuns < MaxCellRuns
    /\ case' = c
    /\ tens' = GenSplats(c, rng).splats
    /\ rng' = GenSplats(c, rng).rng
    /\ hist' = [hist EXCEPT !.exec = <<>>, !.splats = GenSplats(c, rng).splats]
    /\ nonleaf' = NoNonLeaf
    /\ lastCall' = NoCall
    /\ pc' = "exec"
    /\ UNCHANGED <<script, poolFile, cfg, times, iters, start_time, now, pending, ret,
                   sweepRow, bench_times, sweepPos, cellRuns, tensors, files>>

\* execute_test from its first line through the rasterization call and out_img
ExecRender ==
    /\ script = "fixture" /\ pc = "exec"
    /\ LET t == [k \in Names |-> RequireGrad(tens[k])]
           call == FixtureCall(t, CrabSize, CrabSize)
           out == RasterOutputs(call, basic_camera(CrabSize, CrabSize))
       IN  /\ tens' = t
           /\ lastCall' = call
           /\ nonleaf' = [xys |-> NonLeaf(out.xys), conics |-> NonLeaf(out.conics),
                          out_img |-> NonLeaf(out.out_img), depths |-> out.depths]
    /\ hist' = [hist EXCEPT !.exec = Append(@, "render")]
    /\ pc' = "retain"
    /\ UNCHANGED <<script, poolFile, cfg, times, iters, start_time, now, pending, ret,
                   sweepRow, bench_times, sweepPos, rng, case, cellRuns, tensors, files>>

\* xys.retain_grad(); conics.retain_grad(); out_img.retain_grad()
ExecRetain ==
    /\ script = "fixture" /\ pc = "retain"
    /\ nonleaf' = [nonleaf EXCEPT !.xys = retain_grad(@), !.conics = retain_grad(@),
                                  !.out_img = retain_grad(@)]
    /\ hist' = [hist EXCEPT !.exec = Append(@, "retain")]
    /\ pc' = "backward"
    /\ UNCHANGED <<script, poolFile, cfg, tens, times, iters, start_time, now, pending, ret,
                   lastCall, sweepRow, bench_times, sweepPos, rng, case, cellRuns, tensors,
                   files>>

\* loss = ((out_img - crab_img) ** 2).mean(); loss.backward()
ExecBackward ==
    /\ script = "fixture" /\ pc = "backward"
    /\ tens' = backward(tens, lastCall)
    /\ nonleaf' = [nonleaf EXCEPT !.xys = BackwardNonLeaf(@, BackendGrads(lastCall)),
                                  !.conics = BackwardNonLeaf(@, BackendGrads(lastCall)),
                                  !.out_img = BackwardNonLeaf(@, BackendGrads(lastCall))]
    /\ hist' = [hist EXCEPT !.exec = Append(@, "backward")]
    /\ pc' = "collect"
    /\ UNCHANGED <<script, poolFile, cfg, times, iters, start_time, now, pending, ret,
                   lastCall, sweepRow, bench_times, sweepPos, rng, case, cellRuns, tensors,
                   files>>

\* the value of a tensor, and of its .grad, as stored in the record
Value(t) == [n |-> t.n, rows |-> t.rows]
Rows(n, rows) == [n |-> n, rows |-> rows]

\* tensors = {...}
FixtureRecord(t, nl) ==
    [means |-> Value(t.means), scales |-> Value(t.log_scales), coeffs |-> Value(t.coeffs),
     quats |-> Value(t.quats), opacities |-> Value(t.opacities),
     depths |-> Rows(t.means.n, nl.depths),
     xys |-> Rows(t.means.n, nl.xys.rows),
     conics |-> Rows(t.means.n, nl.conics.rows),
     v_xy |-> nl.xys.grad, v_conics |-> nl.conics.grad,
     v_means |-> t.means.grad, v_scales |-> t.log_scales.grad,
     v_coeffs |-> t.coeffs.grad, v_quats |-> t.quats.grad,
     v_opacities |-> t.opacities.grad,
     out_img |-> Rows(t.means.n, nl.out_img.rows), v_out_img |-> nl.out_img.grad]

ExecCollect ==
    /\ script = "fixture" /\ pc = "collect"
    /\ tensors' = FixtureRecord(tens, nonleaf)
    /\ hist' = [hist EXCEPT !.exec = Append(@, "collect")]
    /\ pc' = "save"
    /\ UNCHANGED <<script, poolFile, cfg, tens, times, iters, start_time, now, pending, ret,
                   lastCall, sweepRow, bench_times, sweepPos, rng, case, cellRuns, nonleaf,
                   files>>

\* save_file(tensors, f"./{name}.safetensors"); the cell ends
ExecSave ==
    /\ script = "fixture" /\ pc = "save"
    /\ files' = Put(files, case, tensors)
    /\ hist' = [hist EXCEPT !.exec = Append(@, "save"),
                            !.firstFiles = IF case \in DOMAIN @ THEN @
                                           ELSE Put(@, case, tensors)]
    /\ cellRuns' = cellRuns + 1
    /\ pc' = "idle"
    /\ UNCHANGED <<script, poolFile, cfg, tens, times, iters, start_time, now, pending, ret,
                   lastCall, sweepRow, bench_times, sweepPos, rng, case, nonleaf, tensors>>

Fixture ==
    \/ \E c \in Cases : GenCell(c)
    \/ ExecRender
    \/ ExecRetain
    \/ ExecBackward
    \/ ExecCollect
    \/ ExecSave

-----------------------------------------------------------------------------
(* A timing run: the sampling loop of bench_general under a host load that  *)
(* makes the batch durations vary                                          *)

\* the duration of sample number k (from 1) under a load profile: a periodic
\* pattern for the first split samples, a constant level afterwards
ProfileDuration(h, k) ==
    IF k <= h.split THEN h.pattern[((k - 1) % Len(h.pattern)) + 1] ELSE h.level

\* times = [measure_iter() for _ in range(TARGET_SAMPLE_COUNT)]: one sample
TimedSample ==
    /\ script = "timing" /\ pc = "start"
    /\ Len(times) < TARGET_SAMPLE_COUNT
    /\ times' = Append(times, ProfileDuration(hist, Len(times) + 1))
    /\ UNCHANGED <<script, pc, poolFile, cfg, tens, iters, start_time, now, pending, ret,
                   lastCall, sweepRow, bench_times, sweepPos, rng, case, cellRuns, nonleaf,
                   tensors, files, hist>>

-----------------------------------------------------------------------------
(* Specifications *)

Pools == {PoolFile(BenchPoolSize, s) : s \in 0 .. MaxPoolSeed}

PriorGenerators == {[seed |-> s, offset |-> o] : s \in 0 .. MaxPriorSeed,
                                                  o \in 0 .. MaxPriorOffset}

\* one call of bench_general with the arguments of any line of the sweep
InitBenchCall ==
    /\ script = "bench" /\ pc = "load"
    /\ poolFile \in Pools
    /\ cfg \in SweepCfgs
    /\ tens = NoTensors /\ times = <<>> /\ iters = 0 /\ start_time = 0 /\ now = 0
    /\ pending = 0 /\ ret = 0 /\ lastCall = NoCall /\ sweepRow = <<>>
    /\ bench_times = [l \in {} |-> <<>>] /\ sweepPos = 1 /\ rng = manual_seed(0)
    /\ case = "none" /\ cellRuns = 0 /\ nonleaf = NoNonLeaf
    /\ tensors = [l \in {} |-> <<>>] /\ files = [l \in {} |-> <<>>] /\ hist = NoHist

\* a session of generate_reference.py, whatever the generator state before it
InitFixture ==
    /\ script = "fixture" /\ pc = "idle"
    /\ rng \in PriorGenerators
    /\ poolFile = PoolFile(0, 0) /\ cfg = NoCfg
    /\ tens = NoTensors /\ times = <<>> /\ iters = 0 /\ start_time = 0 /\ now = 0
    /\ pending = 0 /\ ret = 0 /\ lastCall = NoCall /\ sweepRow = <<>>
    /\ bench_times = [l \in {} |-> <<>>] /\ sweepPos = 1
    /\ case = "none" /\ cellRuns = 0 /\ nonleaf = NoNonLeaf
    /\ tensors = [l \in {} |-> <<>>] /\ files = [l \in {} |-> <<>>] /\ hist = NoHist

Init == InitBenchCall \/ InitFixture

Next == BenchGeneral \/ Fixture

Spec == Init /\ [][Next]_vars

\* bench.py as a whole
InitSweep ==
    /\ script = "bench" /\ pc = "sweep"
    /\ poolFile \in Pools
    /\ cfg = NoCfg
    /\ tens = NoTensors /\ times = <<>> /\ iters = 0 /\ start_time = 0 /\ now = 0
    /\ pending = 0 /\ ret = 0 /\ lastCall = NoCall /\ sweepRow = <<>>
    /\ bench_times = [l \in {} |-> <<>>] /\ sweepPos = 1 /\ rng = manual_seed(0)
    /\ case = "none" /\ cellRuns = 0 /\ nonleaf = NoNonLeaf
    /\ tensors = [l \in {} |-> <<>>] /\ files = [l \in {} |-> <<>>] /\ hist = NoHist

NextSweep == Sweep \/ BenchGeneral

SpecSweep == InitSweep /\ [][NextSweep]_vars

\* load_bench_tensors on any pool size, density and mode
InitLoad ==
    /\ script = "bench" /\ pc = "load"
    /\ poolFile \in {PoolFile(n, s) : n \in 0 .. MaxPool, s \in 0 .. MaxPoolSeed}
    /\ cfg \in SweepCfgs
    /\ tens = NoTensors /\ times = <<>> /\ iters = 0 /\ start_time = 0 /\ now = 0
    /\ pending = 0 /\ ret = 0 /\ lastCall = NoCall /\ sweepRow = <<>>
    /\ bench_times = [l \in {} |-> <<>>] /\ sweepPos = 1 /\ rng = manual_seed(0)
    /\ case = "none" /\ cellRuns = 0 /\ nonleaf = NoNonLeaf
    /\ tensors = [l \in {} |-> <<>>] /\ files = [l \in {} |-> <<>>] /\ hist = NoHist

SpecLoad == InitLoad /\ [][BenchEnter]_vars

\* the sampling loop and the median, over load profiles
Patterns == UNION {[1 .. p -> 1 .. MaxDuration] : p \in 1 .. MaxPeriod}

InitTiming ==
    /\ script = "timing" /\ pc = "start"
    /\ \E pat \in Patterns, sp \in 0 .. TARGET_SAMPLE_COUNT, lv \in 1 .. MaxDuration :
          hist = [NoHist EXCEPT !.pattern = pat, !.split = sp, !.level = lv]
    /\ poolFile = PoolFile(0, 0) /\ cfg = NoCfg
    /\ tens = NoTensors /\ times = <<>> /\ iters = 0 /\ start_time = 0 /\ now = 0
    /\ pending = 0 /\ ret = 0 /\ lastCall = NoCall /\ sweepRow = <<>>
    /\ bench_times = [l \in {} |-> <<>>] /\ sweepPos = 1 /\ rng = manual_seed(0)
    /\ case = "none" /\ cellRuns = 0 /\ nonleaf = NoNonLeaf
    /\ tensors = [l \in {} |-> <<>>] /\ files = [l \in {} |-> <<>>]

NextTiming == TimedSample \/ ReturnMedian

SpecTiming == InitTiming /\ [][NextTiming]_vars

-----------------------------------------------------------------------------
(* Properties *)

IsPrefix(a, b) == Len(a) <= Len(b) /\ \A i \in 1 .. Len(a) : a[i] = b[i]

Last(q) == q[Len(q)]

\* the events of one timing sample, in order
SampleEvents == <<"start">> \o [i \in 1 .. INTERNAL_ITERS |-> "pass"] \o <<"sync", "stop">>

\* C1: in every timing sample the events are clock start, exactly
\* INTERNAL_ITERS = 4 consecutive passes, one synchronization, clock stop, in
\* this order; the synchronization comes after the 4th pass was issued, and the
\* clock is stopped only after the synchronization completed, with no device
\* work outstanding.
C1_SampleOrder ==
    script = "bench" =>
        /\ IsPrefix(hist.events, SampleEvents)
        /\ (hist.events # <<>> /\ Last(hist.events) \in {"sync", "stop"}) => pending = 0
        /\ pc = "stop" => hist.events = SubSeq(SampleEvents, 1, INTERNAL_ITERS + 2)
        /\ (pc \in {"start", "returned"} /\ Len(times) > 0) => hist.events = SampleEvents
        /\ (pc = "iter" /\ hist.events # <<>> /\ Last(hist.events) = "pass")
              => Len(hist.events) = iters + 1

\* C1 witness: the last sample of a forward+backward configuration is complete
C1_Witness ==
    /\ script = "bench" /\ cfg.calc_grads
    /\ Len(times) = TARGET_SAMPLE_COUNT
    /\ hist.events = SampleEvents

Range(q) == {q[i] : i \in 1 .. Len(q)}

\* the k-th smallest element of q, by counting
KthSmallest(q, k) ==
    CHOOSE v \in Range(q) :
        /\ Cardinality({i \in 1 .. Len(q) : q[i] < v}) < k
        /\ k <= Cardinality({i \in 1 .. Len(q) : q[i] <= v})

\* C2: bench_general returns after exactly TARGET_SAMPLE_COUNT = 40 samples,
\* and the value returned is (in half ticks) the sum of the 20th and 21st
\* smallest samples, i.e. their mean, whatever the order of the samples; it
\* lies between the smallest and the largest sample.
C2_Median ==
    pc = "returned" =>
        /\ Len(times) = 40
        /\ ret = KthSmallest(times, 20) + KthSmallest(times, 21)
        /\ 2 * KthSmallest(times, 1) <= ret
        /\ ret <= 2 * KthSmallest(times, Len(times))

\* C2 witness: unsorted samples whose two middle values differ
C2_Witness ==
    /\ script = "timing" /\ pc = "returned"
    /\ KthSmallest(times, 20) # KthSmallest(times, 21)
    /\ \E i \in 1 .. Len(times) - 1 : times[i] > times[i + 1]
    /\ \E i \in 1 .. Len(times) - 1 : times[i] < times[i + 1]

\* the regime a label names: mean multiplier (hundredths), width, height, mode
LabelCfg(l, j) ==
    [point_frac |-> j,
     mean_mult |-> IF l \in {"fwd_dense", "bwd_dense"} THEN 25 ELSE 100,
     w |-> IF l \in {"fwd_hd", "bwd_hd"} THEN 1024 ELSE 512,
     h |-> IF l \in {"fwd_hd", "bwd_hd"} THEN 1024 ELSE 512,
     calc_grads |-> l \in {"bwd_base", "bwd_dense", "bwd_hd"}]

LabelOrder == <<"fwd_base", "fwd_dense", "fwd_hd", "bwd_base", "bwd_dense", "bwd_hd">>

\* C3: at every point of the sweep the labels written so far are the first
\* labels of fwd_base, fwd_dense, fwd_hd, bwd_base, bwd_dense, bwd_hd (so the
\* lines run one after another, forward-only before forward+backward), each
\* holds exactly 10 medians, the i-th being the value bench_general returned
\* for density i/10 in the regime of the label (base 1.0 at 512x512, dense 0.25
\* at 512x512, hd 1.0 at 1024x1024); when the sweep is over all six are there.
C3_SweepShape ==
    /\ sweepPos \in 1 .. 7
    /\ DOMAIN bench_times = {LabelOrder[p] : p \in 1 .. sweepPos - 1}
    /\ \A l \in DOMAIN bench_times :
          /\ Len(bench_times[l]) = 10
          /\ Len(hist.benchLog[l]) = 10
          /\ \A i \in 1 .. 10 :
                /\ hist.benchLog[l][i].cfg = LabelCfg(l, i)
                /\ hist.benchLog[l][i].ret = bench_times[l][i]
    /\ pc # "sweep" => cfg = LabelCfg(LabelOrder[sweepPos], Len(sweepRow) + 1)

\* C3 witness: the sweep is over
C3_Witness ==
    /\ sweepPos = 7
    /\ DOMAIN bench_times = Range(LabelOrder)
    /\ \A l \in DOMAIN bench_times : Len(bench_times[l]) = 10

\* a sample of bench_general is about to issue its first pass
AtSampleStart == script = "bench" /\ pc = "iter" /\ hist.events = <<"start">>

\* C4 (as claimed): at the start of every sample the five tensors and their
\* gradient buffers are those seen at the start of the first sample of the
\* configuration.
C4_SamplesSeeSameTensors == AtSampleStart => tens = hist.first

\* C5 (as claimed): on every rasterization call, of the fixture path and of
\* the benchmark path, the quats argument is the L2-normalized form of the
\* splat rotations and has unit rows.
C5_QuatsNormalized ==
    lastCall.path # "none" =>
        \A i \in 1 .. Len(lastCall.quats) :
            /\ lastCall.quats[i] = normalize(tens.quats.rows[i])
            /\ SumSq(tens.quats.rows[i].v) # 0 => IsUnit(lastCall.quats[i])

\* the events of one execute_test, in order
ExecEvents == <<"render", "retain", "backward", "collect", "save">>

RecordKeys == {"means", "scales", "coeffs", "quats", "opacities", "depths", "xys",
               "conics", "v_xy", "v_conics", "v_means", "v_scales", "v_coeffs",
               "v_quats", "v_opacities", "out_img", "v_out_img"}

GradKeys == {"v_xy", "v_conics", "v_means", "v_scales", "v_coeffs", "v_quats",
             "v_opacities", "v_out_img"}

WellFormedRecord(r) ==
    /\ DOMAIN r = RecordKeys
    /\ Cardinality(DOMAIN r) = 17
    /\ \A k \in GradKeys : r[k].set

C6_Order ==
    script = "fixture" =>
        /\ IsPrefix(hist.exec, ExecEvents)
        /\ pc = "backward" =>
              nonleaf.xys.retain /\ nonleaf.conics.retain /\ nonleaf.out_img.retain
        /\ pc = "save" => WellFormedRecord(tensors)
        /\ \A c \in DOMAIN files : WellFormedRecord(files[c])

C6_WriteOnce ==
    \A c \in DOMAIN files : c \in DOMAIN files' /\ files'[c] = files[c]

\* C6: execute_test renders, requests gradient retention for xys, conics and
\* out_img, runs the backward pass, and only then collects and saves the
\* record, once; the record has exactly the 17 keys and every v_* entry is
\* populated when it is read; a saved record is never changed afterwards.
C6_FixtureRecord == []C6_Order /\ [][C6_WriteOnce]_vars

\* C6 witness: a test case has been saved
C6_Witness ==
    /\ script = "fixture" /\ pc = "idle"
    /\ hist.exec = ExecEvents
    /\ case \in DOMAIN files /\ files[case] = tensors

\* the colour rows before any clamp, recomputed from the tensors
Unclamped(degree, i, w, h) ==
    AddHalf(spherical_harmonics(degree, Dirs(tens.means.rows[i], basic_camera(w, h)),
                                tens.coeffs.rows[i]))

\* C7: every colour the benchmark path hands to the backend is the degree-0
\* SH value plus 0.5 clamped at 0, so no component is negative; the colour
\* the fixture path hands over is the degree-3 SH value plus 0.5, not clamped.
C7_ClampAsymmetry ==
    /\ lastCall.path = "bench" =>
          \A i \in 1 .. Len(lastCall.colors) : \A c \in 1 .. 3 :
              /\ lastCall.colors[i][c] >= 0
              /\ lastCall.colors[i][c] = Max(Unclamped(0, i, cfg.w, cfg.h)[c], 0)
    /\ lastCall.path = "fixture" =>
          \A i \in 1 .. Len(lastCall.colors) :
              lastCall.colors[i] = Unclamped(3, i, CrabSize, CrabSize)

\* C7 witness: the benchmark clamp acted on a negative component
C7_Witness ==
    /\ lastCall.path = "bench"
    /\ \E i \in 1 .. Len(lastCall.colors) : \E c \in 1 .. 3 :
          Unclamped(0, i, cfg.w, cfg.h)[c] < 0 /\ lastCall.colors[i][c] = 0

\* the fixture path passed a negative colour component through
C7_FixtureNegative ==
    /\ lastCall.path = "fixture"
    /\ \E i \in 1 .. Len(lastCall.colors) : \E c \in 1 .. 3 : lastCall.colors[i][c] < 0

\* the splat set of a case, from its seed alone
ReferenceSplats(c) ==
    GenSplats(c, manual_seed(IF c = "tiny_case" THEN 14 ELSE IF c = "basic_case" THEN 3 ELSE 6))
        .splats

\* the record of a case, from its seed alone
ReferenceRecord(c) ==
    LET t0 == [k \in Names |-> RequireGrad(ReferenceSplats(c)[k])]
        call == FixtureCall(t0, CrabSize, CrabSize)
        out == RasterOutputs(call, basic_camera(CrabSize, CrabSize))
        g == [set |-> TRUE, rows |-> BackendGrads(call)]
        t1 == [k \in Names |-> [t0[k] EXCEPT !.grad = g]]
        nl == [xys |-> [rows |-> out.xys, retain |-> TRUE, grad |-> g],
               conics |-> [rows |-> out.conics, retain |-> TRUE, grad |-> g],
               out_img |-> [rows |-> out.out_img, retain |-> TRUE, grad |-> g],
               depths |-> out.depths]
    IN  FixtureRecord(t1, nl)

\* C8: whatever generator state earlier cells (or the session before them)
\* left behind, a generator produces the splat set fixed by its seed, with 4,
\* 16 and 76873 splats for tiny, basic and mix, and saves the record fixed by
\* its seed; a second run of a case saves what its first run saved.
C8_Deterministic ==
    script = "fixture" =>
        /\ pc = "exec" =>
              /\ tens = ReferenceSplats(case)
              /\ \A k \in Names :
                    tens[k].n = (IF case = "tiny_case" THEN 4
                                 ELSE IF case = "basic_case" THEN 16 ELSE 76873)
        /\ \A c \in DOMAIN files :
              /\ files[c] = ReferenceRecord(c)
              /\ files[c] = hist.firstFiles[c]

\* C8 witness: a case was saved again after other cells had moved the generator
C8_Witness ==
    /\ script = "fixture" /\ pc = "idle"
    /\ cellRuns >= 3
    /\ Cardinality(DOMAIN files) = 2

\* C9 (as claimed): the five loaded arrays have the leading count
\* floor(density x poolSize) and are index-aligned prefixes of the pool, the
\* means multiplied by mean_mult and the others unchanged.
C9_LoadedPrefix ==
    (script = "bench" /\ pc = "start") =>
        LET n == (cfg.point_frac * poolFile.n) \div 10
        IN  /\ \A k \in Names : tens[k].n = n
            /\ \A i \in 1 .. Min(n, MaxRows) :
                  /\ tens.means.rows[i] = ScaleMeans(poolFile.means[i], cfg.mean_mult)
                  /\ tens.log_scales.rows[i] = poolFile.scales[i]
                  /\ tens.coeffs.rows[i] = poolFile.coeffs[i]
                  /\ tens.quats.rows[i] = poolFile.quats[i]
                  /\ tens.opacities.rows[i] = poolFile.opacities[i]

\* C10: in a forward-only configuration no tensor tracks gradients, no
\* gradient buffer exists and no backward pass ever runs; in a
\* forward+backward configuration all five tensors track gradients and every
\* forward pass is followed by exactly one backward pass before the next
\* forward pass; a configuration makes 40 * 4 = 160 forward passes.
C10_GradOnlyOnRequest ==
    (script = "bench" /\ pc # "load") =>
        /\ ~cfg.calc_grads =>
              /\ \A k \in Names : ~tens[k].requires_grad /\ ~tens[k].grad.set
              /\ hist.bwd = 0
              /\ pc # "loss"
        /\ cfg.calc_grads =>
              /\ \A k \in Names : tens[k].requires_grad
              /\ hist.bwd = (IF pc = "loss" THEN hist.fwd - 1 ELSE hist.fwd)
        /\ pc = "returned" => hist.fwd = 160

\* C10 witness: a forward+backward configuration returned after 160 backward passes
C10_Witness ==
    /\ script = "bench" /\ pc = "returned"
    /\ cfg.calc_grads /\ hist.bwd = 160
    /\ \A k \in Names : tens[k].grad.set

====
